---- MODULE Spec2Model ----
(***************************************************************************)
(* Model of yolink_devices.py: a script that reads its configuration from  *)
(* the environment, fetches the device catalog of a YoLink hub, fetches    *)
(* the state of every device that has a token, assembles one row per       *)
(* device, sorts the rows and prints them as a table.                      *)
(*                                                                         *)
(* Python strings are TLA+ strings; the i-th character of s is             *)
(* SubSeq(s, i, i).  JSON values are records [t, n, s]: t is the JSON type *)
(* ("absent" for a key that is not in the object), n the number (a float   *)
(* is kept in tenths) and s the string.  A JSON object is a sequence of    *)
(* [k, v] pairs in insertion order.                                        *)
(***************************************************************************)
EXTENDS Integers, Sequences, FiniteSets, TLC

(***************************************************************************)
(* Bounds                                                                  *)
(***************************************************************************)
MaxDevices == 2

(***************************************************************************)
(* Characters and strings                                                  *)
(***************************************************************************)
\* The characters the model uses, in ASCII order.
Ascii == " %-./0123456789:ABCDEFGHIJKLMNOPQRSTUVWXYZ_abcdefghijklmnopqrstuvwxyz"

Upper == "ABCDEFGHIJKLMNOPQRSTUVWXYZ"

Lower == "abcdefghijklmnopqrstuvwxyz"

Digits == "0123456789"

Char(s, i) == SubSeq(s, i, i)

IndexIn(alphabet, c) ==
    IF \E i \in 1..Len(alphabet) : Char(alphabet, i) = c
    THEN CHOOSE i \in 1..Len(alphabet) : Char(alphabet, i) = c
    ELSE 0

CharsOf(alphabet) == { Char(alphabet, i) : i \in 1..Len(alphabet) }

OrdTable == [ c \in CharsOf(Ascii) |-> IndexIn(Ascii, c) ]

\* ord(c), up to an order-preserving renumbering.
Ord(c) == OrdTable[c]

DigitTable == [ c \in CharsOf(Digits) |-> IndexIn(Digits, c) - 1 ]

IsDigit(c) == c \in DOMAIN DigitTable

DigitVal(c) == DigitTable[c]

AllDigits(s) == \A i \in 1..Len(s) : IsDigit(Char(s, i))

LowerTable == [ c \in CharsOf(Upper) |-> Char(Lower, IndexIn(Upper, c)) ]

\* str.lower() on one character.
LowerChar(c) == IF c \in DOMAIN LowerTable THEN LowerTable[c] ELSE c

RECURSIVE ToLower(_)
\* str.lower()
ToLower(s) == IF s = "" THEN "" ELSE LowerChar(Head(s)) \o ToLower(Tail(s))

\* keyword in s
Contains(s, keyword) ==
    \E i \in 1..(Len(s) - Len(keyword) + 1) :
        SubSeq(s, i, i + Len(keyword) - 1) = keyword

RECURSIVE StrLess(_, _)
\* a < b on Python strings.
StrLess(a, b) ==
    IF b = "" THEN FALSE
    ELSE IF a = "" THEN TRUE
    ELSE IF Head(a) = Head(b) THEN StrLess(Tail(a), Tail(b))
    ELSE Ord(Head(a)) < Ord(Head(b))

RECURSIVE TupleLess(_, _)
\* a < b on Python tuples of strings of the same length.
TupleLess(a, b) ==
    IF a = <<>> \/ b = <<>> THEN FALSE
    ELSE IF Head(a) = Head(b) THEN TupleLess(Tail(a), Tail(b))
    ELSE StrLess(Head(a), Head(b))

RECURSIVE Repeat(_, _)
\* c * n
Repeat(c, n) ==
    IF n <= 0 THEN ""
    ELSE IF n % 2 = 0
    THEN LET half == Repeat(c, n \div 2) IN half \o half
    ELSE c \o Repeat(c, n - 1)

Spaces(n) == Repeat(" ", n)

Dashes(n) == Repeat("-", n)

\* f"{s:<w}"
Ljust(s, w) == s \o Spaces(w - Len(s))

\* f"{s:>w}"
Rjust(s, w) == Spaces(w - Len(s)) \o s

\* f"{s:^w}": the odd space of the padding goes to the right.
Center(s, w) ==
    IF Len(s) >= w THEN s
    ELSE LET pad == w - Len(s)
         IN  Spaces(pad \div 2) \o s \o Spaces(pad - (pad \div 2))

RECURSIVE LStrip(_)
LStrip(s) == IF s # "" /\ Head(s) = " " THEN LStrip(Tail(s)) ELSE s

RECURSIVE RStrip(_)
RStrip(s) ==
    IF s # "" /\ Char(s, Len(s)) = " "
    THEN RStrip(SubSeq(s, 1, Len(s) - 1))
    ELSE s

\* str.strip()
Strip(s) == RStrip(LStrip(s))

RECURSIVE NatStr(_)
NatStr(n) ==
    IF n < 10 THEN Char(Digits, n + 1)
    ELSE NatStr(n \div 10) \o Char(Digits, (n % 10) + 1)

\* str(n) for an int.
IntStr(n) == IF n < 0 THEN "-" \o NatStr(0 - n) ELSE NatStr(n)

\* f"{x:.1f}" for the float whose value is tenths/10.
FixedStr(tenths) ==
    LET a == IF tenths < 0 THEN 0 - tenths ELSE tenths
    IN  (IF tenths < 0 THEN "-" ELSE "") \o NatStr(a \div 10) \o "."
            \o NatStr(a % 10)

RECURSIVE ReplaceZ(_)
\* s.replace('Z', '+00:00')
ReplaceZ(s) ==
    IF s = "" THEN ""
    ELSE (IF Head(s) = "Z" THEN "+00:00" ELSE Head(s)) \o ReplaceZ(Tail(s))

RECURSIVE DigitsVal(_)
DigitsVal(s) ==
    IF s = "" THEN 0
    ELSE DigitsVal(SubSeq(s, 1, Len(s) - 1)) * 10 + DigitVal(Char(s, Len(s)))

(***************************************************************************)
(* JSON values and objects                                                 *)
(***************************************************************************)
JAbsent == [t |-> "absent", n |-> 0, s |-> ""]

JNull == [t |-> "null", n |-> 0, s |-> ""]

JStr(str) == [t |-> "str", n |-> 0, s |-> str]

JInt(num) == [t |-> "int", n |-> num, s |-> ""]

JFloat(tenths) == [t |-> "float", n |-> tenths, s |-> ""]

\* key in obj
Has(obj, key) == \E j \in 1..Len(obj) : obj[j].k = key

\* obj[key], JAbsent when the key is not there.
Get(obj, key) ==
    IF Has(obj, key)
    THEN obj[CHOOSE j \in 1..Len(obj) : obj[j].k = key].v
    ELSE JAbsent

\* obj.get(key, default)
GetOr(obj, key, default) == IF Has(obj, key) THEN Get(obj, key) ELSE default

\* bool(v)
Truthy(v) ==
    CASE v.t = "str" -> v.s # ""
      [] v.t \in {"int", "float"} -> v.n # 0
      [] OTHER -> FALSE

\* str(v)
PyStr(v) ==
    CASE v.t = "str" -> v.s
      [] v.t = "int" -> IntStr(v.n)
      [] v.t = "float" -> FixedStr(v.n)
      [] OTHER -> "None"

\* The decimal strings float() is modelled on: digits, or digits "." digit.
IsDecimal(str) ==
    \/ str # "" /\ AllDigits(str)
    \/ /\ Len(str) >= 3
       /\ Char(str, Len(str) - 1) = "."
       /\ AllDigits(SubSeq(str, 1, Len(str) - 2))
       /\ IsDigit(Char(str, Len(str)))

DecimalTenths(str) ==
    IF AllDigits(str) THEN DigitsVal(str) * 10
    ELSE DigitsVal(SubSeq(str, 1, Len(str) - 2)) * 10
            + DigitVal(Char(str, Len(str)))

\* float(v): the value in tenths, or the exception float() raises.
PyFloat(v) ==
    CASE v.t = "int" -> [raises |-> FALSE, tenths |-> v.n * 10]
      [] v.t = "float" -> [raises |-> FALSE, tenths |-> v.n]
      [] v.t = "str" /\ IsDecimal(v.s) ->
            [raises |-> FALSE, tenths |-> DecimalTenths(v.s)]
      [] OTHER -> [raises |-> TRUE, tenths |-> 0]

(***************************************************************************)
(* Field extractors                                                        *)
(***************************************************************************)
NA == "N/A"

get_model_from_appeui(appeui) ==
    IF appeui # "" /\ Len(appeui) >= 10
    THEN "YS" \o SubSeq(appeui, 7, 10) \o "-UC"
    ELSE NA

format_device_type(device_type, model) ==
    IF model = "YS7706-UC" THEN "Garage door sensor"
    ELSE CASE device_type = "MotionSensor" -> "Motion sensor"
           [] device_type = "THSensor" -> "Temperature sensor"
           [] device_type = "DoorSensor" -> "Door sensor"
           [] device_type = "LeakSensor" -> "Leak sensor"
           [] OTHER -> device_type

\* A temperature value: None, or a float kept in tenths.
NoTemp == [none |-> TRUE, tenths |-> 0]

Temp(tenths) == [none |-> FALSE, tenths |-> tenths]

format_temperature(temp_value, device_type) ==
    IF temp_value.none THEN Center(NA, 7)
    ELSE LET t == temp_value.tenths
             temp_str ==
                 IF device_type = "THSensor"
                 THEN Rjust(FixedStr(t), 5) \o "C"
                 ELSE IF t % 10 = 0
                      THEN Rjust(IntStr(t \div 10), 3) \o "  C"
                      ELSE Rjust(FixedStr(t), 5) \o "C"
         IN  Rjust(temp_str, 7)

DaysInMonth(y, m) ==
    CASE m \in {4, 6, 9, 11} -> 30
      [] m = 2 -> IF (y % 4 = 0 /\ y % 100 # 0) \/ y % 400 = 0 THEN 29 ELSE 28
      [] OTHER -> 31

\* datetime.fromisoformat accepts r.  The model covers the shapes
\* YYYY-MM-DD?HH:MM:SS, an optional fraction of 3 or 6 digits, and an
\* optional UTC offset +00:00 (what the replacement of a trailing Z gives).
IsIsoFormat(r) ==
    /\ Len(r) >= 19
    /\ AllDigits(SubSeq(r, 1, 4)) /\ Char(r, 5) = "-"
    /\ AllDigits(SubSeq(r, 6, 7)) /\ Char(r, 8) = "-"
    /\ AllDigits(SubSeq(r, 9, 10))
    /\ AllDigits(SubSeq(r, 12, 13)) /\ Char(r, 14) = ":"
    /\ AllDigits(SubSeq(r, 15, 16)) /\ Char(r, 17) = ":"
    /\ AllDigits(SubSeq(r, 18, 19))
    /\ LET y == DigitsVal(SubSeq(r, 1, 4))
           m == DigitsVal(SubSeq(r, 6, 7))
           d == DigitsVal(SubSeq(r, 9, 10))
       IN  /\ y >= 1 /\ m \in 1..12 /\ d >= 1 /\ d <= DaysInMonth(y, m)
           /\ DigitsVal(SubSeq(r, 12, 13)) <= 23
           /\ DigitsVal(SubSeq(r, 15, 16)) <= 59
           /\ DigitsVal(SubSeq(r, 18, 19)) <= 59
    /\ LET rest == SubSeq(r, 20, Len(r))
           IsFraction(f) ==
               /\ Len(f) \in {4, 7}
               /\ Head(f) = "."
               /\ AllDigits(Tail(f))
       IN  \/ rest = ""
           \/ rest = "+00:00"
           \/ IsFraction(rest)
           \/ /\ Len(rest) > 6
              /\ SubSeq(rest, Len(rest) - 5, Len(rest)) = "+00:00"
              /\ IsFraction(SubSeq(rest, 1, Len(rest) - 6))

\* The local time zone of the machine is UTC: astimezone() keeps the
\* fields, strftime writes the date, a space and the time of day.
format_report_time(report_at) ==
    IF ~Truthy(report_at) THEN Center(NA, 19)
    ELSE IF report_at.t # "str" THEN Center(NA, 19)
    ELSE LET r == ReplaceZ(report_at.s)
         IN  IF IsIsoFormat(r)
             THEN Center(SubSeq(r, 1, 10) \o " " \o SubSeq(r, 12, 19), 19)
             ELSE Center(NA, 19)

(***************************************************************************)
(* What the hub can answer                                                 *)
(***************************************************************************)
KV(key, value) == [k |-> key, v |-> value]

\* Catalog entries (DeviceSummary).  Two motion sensors share type and name;
\* one entry has an empty token, one has the garage-door model, one has an
\* empty name and no token or appEui key at all.
Devices ==
    { << KV("deviceId", JStr("d1")), KV("name", JStr("Hall")),
         KV("type", JStr("MotionSensor")), KV("token", JStr("tk1")),
         KV("appEui", JStr("d88b4c7804000000")) >>,
      << KV("deviceId", JStr("d2")), KV("name", JStr("Hall")),
         KV("type", JStr("MotionSensor")), KV("token", JStr("tk2")),
         KV("appEui", JStr("d88b4c7804000000")) >>,
      << KV("deviceId", JStr("d3")), KV("name", JStr("Attic")),
         KV("type", JStr("LeakSensor")), KV("token", JStr("")),
         KV("appEui", JStr("short")) >>,
      << KV("deviceId", JStr("d4")), KV("name", JStr("Bay")),
         KV("type", JStr("DoorSensor")), KV("token", JStr("tk4")),
         KV("appEui", JStr("d88b4c7706000000")) >>,
      << KV("deviceId", JStr("d5")), KV("name", JStr("")),
         KV("type", JStr("THSensor")) >> }

RECURSIVE DistinctSeqs(_, _)
\* The sequences of at most n different elements of S.
DistinctSeqs(S, n) ==
    IF n = 0 THEN { <<>> }
    ELSE LET shorter == DistinctSeqs(S, n - 1)
         IN  shorter \cup
                 UNION { { Append(q, e) : e \in S \ { q[j] : j \in 1..Len(q) } } :
                         q \in shorter }

\* The hub lists a device once; it lists at most MaxDevices of them.
Catalogs == DistinctSeqs(Devices, MaxDevices)

\* A response to Home.getDeviceList: how the HTTP exchange ended and, for a
\* JSON object, its envelope and data.devices.
CatalogResponse(kind, code, desc, has_data, has_devices, list) ==
    [kind |-> kind, code |-> code, desc |-> desc, has_data |-> has_data,
     has_devices |-> has_devices, devices |-> list]

CatalogFailures ==
    { CatalogResponse(kd, JAbsent, JAbsent, FALSE, FALSE, <<>>) :
          kd \in {"transport", "http", "badjson"} }
    \cup { CatalogResponse("json", JStr("000103"), JStr("Token is expired"),
                           FALSE, FALSE, <<>>),
           CatalogResponse("json", JStr("020104"), JStr(""), TRUE, TRUE,
                           <<>>),
           CatalogResponse("json", JStr("000000"), JStr("Token EXPIRED"),
                           TRUE, TRUE, <<>>),
           CatalogResponse("json", JStr("0"), JStr("Invalid request"),
                           TRUE, FALSE, <<>>),
           CatalogResponse("json", JAbsent, JStr("internal Error"),
                           FALSE, FALSE, <<>>) }

CatalogSuccesses ==
    { CatalogResponse("json", JStr("000000"), JStr("Success"), TRUE, TRUE, c) :
          c \in Catalogs }
    \cup { CatalogResponse("json", JStr("0"), JAbsent, TRUE, FALSE, <<>>),
           CatalogResponse("json", JAbsent, JAbsent, FALSE, FALSE, <<>>) }

CatalogResponses == CatalogFailures \cup CatalogSuccesses

\* A response to <type>.getState: how the HTTP exchange ended and, for a
\* JSON object, its code, whether it has a data object, data.reportAt and
\* data.state (a missing state and an empty one are read alike).
StateResponse(kind, code, has_data, report_at, state) ==
    [kind |-> kind, code |-> code, has_data |-> has_data,
     report_at |-> report_at, state |-> state]

NoCatalogResponse == CatalogResponse("none", JAbsent, JAbsent, FALSE, FALSE, <<>>)

NoResponse == StateResponse("none", JAbsent, FALSE, JAbsent, <<>>)

StateResponses ==
    { StateResponse("transport", JAbsent, FALSE, JAbsent, <<>>),
      StateResponse("http", JAbsent, FALSE, JAbsent, <<>>),
      StateResponse("badjson", JAbsent, FALSE, JAbsent, <<>>),
      StateResponse("json", JStr("000201"), TRUE, JAbsent, <<>>),
      StateResponse("json", JStr("020104"), TRUE,
                    JStr("2025-12-07T10:00:00.000Z"),
                    << KV("battery", JInt(1)), KV("state", JStr("alert")),
                       KV("version", JStr("0301")) >>),
      StateResponse("json", JStr("000000"), TRUE,
                    JStr("2025-12-09T08:54:34.042Z"),
                    << KV("battery", JInt(4)), KV("devTemperature", JInt(17)),
                       KV("nomotionDelay", JInt(30)),
                       KV("sensitivity", JInt(2)), KV("state", JStr("alert")),
                       KV("version", JStr("0466")) >>),
      StateResponse("json", JStr("0"), TRUE,
                    JStr("2025-12-08T23:10:00Z"),
                    << KV("temperature", JFloat(215)),
                       KV("state", JStr("Normal")) >>),
      StateResponse("json", JStr("000000"), TRUE, JStr("yesterday"),
                    << KV("interval", JInt(5)), KV("battery", JInt(3)) >>),
      StateResponse("json", JAbsent, TRUE, JInt(1765270474),
                    << KV("battery", JInt(2)), KV("devTemperature", JStr("abc")),
                       KV("state", JStr("normal")) >>),
      StateResponse("json", JStr("000000"), TRUE, JAbsent,
                    << KV("state", JStr("")), KV("version", JStr("")) >>),
      StateResponse("json", JAbsent, FALSE, JAbsent, <<>>) }

(***************************************************************************)
(* Per-device state fetch and row assembly                                 *)
(***************************************************************************)
SuccessCodes == {"0", "000000"}

\* code not in ['0', '000000']
BadCode(code) == ~(code.t = "str" /\ code.s \in SuccessCodes)

\* The (state_data, full_response) pair get_device_properties returns, and
\* whether it wrote its warning.  A request, an HTTP status or a body that
\* fails raises inside the try block.
get_device_properties(resp) ==
    IF resp.kind # "json"
    THEN [properties |-> <<>>, properties_none |-> TRUE,
          response |-> NoResponse, response_none |-> TRUE, warned |-> TRUE]
    ELSE IF BadCode(IF resp.code.t = "absent" THEN JStr("0") ELSE resp.code)
    THEN [properties |-> <<>>, properties_none |-> TRUE,
          response |-> resp, response_none |-> FALSE, warned |-> FALSE]
    ELSE [properties |-> resp.state, properties_none |-> FALSE,
          response |-> resp, response_none |-> FALSE, warned |-> FALSE]

\* What the loop holds for a device whose token is empty: nothing fetched.
NotFetched ==
    [properties |-> <<>>, properties_none |-> TRUE,
     response |-> NoResponse, response_none |-> TRUE, warned |-> FALSE]

\* "if device_json_response": a dict is true unless it has no key.
ResponseTruthy(f) ==
    ~f.response_none /\ (f.response.code.t # "absent" \/ f.response.has_data)

\* "if properties"
PropertiesTruthy(f) == ~f.properties_none /\ f.properties # <<>>

DeviceField(device, key, default) == GetOr(device, key, JStr(default)).s

\* The first temperature key that is in the properties.
TemperatureKey(properties) ==
    CASE Has(properties, "devTemperature") -> "devTemperature"
      [] Has(properties, "temperature") -> "temperature"
      [] Has(properties, "temp") -> "temp"
      [] OTHER -> ""

\* The loop body raises: float() of the temperature value fails.
RowRaises(f) ==
    /\ PropertiesTruthy(f)
    /\ TemperatureKey(f.properties) # ""
    /\ PyFloat(Get(f.properties, TemperatureKey(f.properties))).raises

Battery(f) ==
    IF PropertiesTruthy(f) /\ Has(f.properties, "battery")
    THEN IntStr((Get(f.properties, "battery").n * 100) \div 4) \o "%"
    ELSE NA

Temperature(f, device_type) ==
    IF PropertiesTruthy(f)
    THEN LET key == TemperatureKey(f.properties)
             temp_value ==
                 IF key = "" THEN NoTemp
                 ELSE Temp(PyFloat(Get(f.properties, key)).tenths)
         IN  format_temperature(temp_value, device_type)
    ELSE format_temperature(NoTemp, device_type)

ReportTime(f) ==
    IF ResponseTruthy(f) /\ Truthy(f.response.report_at)
    THEN format_report_time(f.response.report_at)
    ELSE Center(NA, 19)

Version(f) ==
    IF PropertiesTruthy(f) /\ Has(f.properties, "version")
    THEN Get(f.properties, "version").s
    ELSE NA

\* The state text of a motion or leak sensor.
AlertState(properties, on_alert, on_normal) ==
    LET raw_state == GetOr(properties, "state", JStr(NA)).s
    IN  IF raw_state = "alert" THEN on_alert
        ELSE IF raw_state \in {"normal", "off"} THEN on_normal
        ELSE ToLower(raw_state)

StateStr(f, device_type) ==
    IF ~PropertiesTruthy(f) THEN NA
    ELSE IF device_type = "MotionSensor"
    THEN AlertState(f.properties, "motion detected", "no motion")
    ELSE IF device_type = "LeakSensor"
    THEN AlertState(f.properties, "wet", "dry")
    ELSE IF Has(f.properties, "state")
    THEN ToLower(SubSeq(Get(f.properties, "state").s, 1,
                        IF Len(Get(f.properties, "state").s) < 20
                        THEN Len(Get(f.properties, "state").s) ELSE 20))
    ELSE LET first == f.properties[1]
             value == PyStr(first.v)
         IN  ToLower(first.k \o ": "
                 \o SubSeq(value, 1, IF Len(value) < 15 THEN Len(value) ELSE 15))

Nomotion(f, device_type) ==
    IF PropertiesTruthy(f) /\ device_type = "MotionSensor"
    THEN PyStr(GetOr(f.properties, "nomotionDelay", JStr(NA)))
    ELSE NA

Sensitivity(f, device_type) ==
    IF PropertiesTruthy(f) /\ device_type = "MotionSensor"
    THEN PyStr(GetOr(f.properties, "sensitivity", JStr(NA)))
    ELSE NA

\* The row the loop appends for a device, given what was fetched for it.
Row(device, f) ==
    LET device_type == DeviceField(device, "type", NA)
        model == get_model_from_appeui(DeviceField(device, "appEui", ""))
    IN  << format_device_type(device_type, model),
           DeviceField(device, "name", NA),
           DeviceField(device, "deviceId", NA),
           model,
           Battery(f),
           Temperature(f, device_type),
           ReportTime(f),
           Nomotion(f, device_type),
           Sensitivity(f, device_type),
           StateStr(f, device_type),
           Version(f) >>

(***************************************************************************)
(* Table rendering                                                         *)
(***************************************************************************)
Line(kind, text) == [kind |-> kind, text |-> text]

\* One line of the table: the eleven cells in their columns, without the
\* Device ID column when it is hidden.
TableLine(c, hide_device_id) ==
    Ljust(c[1], 20) \o " " \o Ljust(c[2], 35) \o " "
        \o (IF hide_device_id THEN "" ELSE Ljust(c[3], 18) \o " ")
        \o Ljust(c[4], 10) \o " " \o c[5] \o " " \o c[6] \o " "
        \o Center(c[7], 19) \o " " \o Center(c[8], 10) \o " "
        \o c[9] \o " " \o c[10] \o " " \o c[11]

\* The list named headers; nothing reads it.
headers ==
    << "Type", "Name", "Device ID", "Model", "Battery", "Temp",
       "No motion delay", "Sensitivity", "State", "Version" >>

\* The titles of the first header line.
HeaderCells ==
    << "Type", "Name", "Device ID", "Model", "Battery", "Temp", "Last", "No",
       "Sensitivity", "State", "Version" >>

HeaderLines(hide_device_id) ==
    << Line("header",
            TableLine(<< HeaderCells[1], HeaderCells[2], HeaderCells[3],
                         HeaderCells[4], Rjust(HeaderCells[5], 8),
                         Rjust(HeaderCells[6], 7), HeaderCells[7],
                         HeaderCells[8], Center(HeaderCells[9], 11),
                         Center(HeaderCells[10], 16),
                         Center(HeaderCells[11], 8) >>, hide_device_id)),
       Line("header",
            TableLine(<< "", "", "", "", Ljust("", 8), Ljust("", 7), "radio",
                         "motion", Ljust("", 11), Ljust("", 16),
                         Ljust("", 8) >>, hide_device_id)),
       Line("header",
            TableLine(<< "", "", "", "", Ljust("", 8), Ljust("", 7),
                         "contact", "delay", Ljust("", 11), Ljust("", 16),
                         Ljust("", 8) >>, hide_device_id)),
       Line("rule", Dashes(IF hide_device_id THEN 175 ELSE 193)) >>

RowLine(row, hide_device_id) ==
    Line("row",
         TableLine(<< row[1], row[2], row[3], row[4], Rjust(row[5], 8),
                      Rjust(row[6], 7), row[7], row[8], Center(row[9], 11),
                      Center(row[10], 16), Center(row[11], 8) >>,
                   hide_device_id))

\* The key table_data.sort is given.
SortKey(row, sort_by_contact) ==
    IF sort_by_contact THEN << Strip(row[7]), row[1], row[2] >>
    ELSE << row[1], row[2] >>

RECURSIVE InsertRowBeforeEqual(_, _, _)
\* An insertion that puts row in front of the rows with an equal key.
InsertRowBeforeEqual(sorted, row, sort_by_contact) ==
    IF sorted = <<>> THEN << row >>
    ELSE IF ~TupleLess(SortKey(Head(sorted), sort_by_contact),
                       SortKey(row, sort_by_contact))
    THEN << row >> \o sorted
    ELSE << Head(sorted) >>
             \o InsertRowBeforeEqual(Tail(sorted), row, sort_by_contact)

RECURSIVE InsertRow(_, _, _)
\* row put into the sorted rows behind every row whose key is not greater.
InsertRow(sorted, row, sort_by_contact) ==
    IF sorted = <<>> THEN << row >>
    ELSE IF TupleLess(SortKey(row, sort_by_contact),
                      SortKey(Head(sorted), sort_by_contact))
    THEN << row >> \o sorted
    ELSE << Head(sorted) >> \o InsertRow(Tail(sorted), row, sort_by_contact)

RECURSIVE SortRows(_, _)
\* list.sort(key=...): ascending and stable.
SortRows(rows, sort_by_contact) ==
    IF rows = <<>> THEN <<>>
    ELSE InsertRow(SortRows(SubSeq(rows, 1, Len(rows) - 1), sort_by_contact),
                   rows[Len(rows)], sort_by_contact)

RECURSIVE JsonDump(_)
\* The lines printed for the entries of json_responses; the text of
\* json.dumps is cut down to the code of the response.
JsonDump(entries) ==
    IF entries = <<>> THEN <<>>
    ELSE << Line("json", "Device: " \o Head(entries).name \o " ("
                           \o Head(entries).deviceId \o ")"),
            Line("json", Dashes(80)),
            Line("json", PyStr(Head(entries).response.code)),
            Line("json", "") >> \o JsonDump(Tail(entries))

JsonSection(entries) ==
    << Line("json", ""), Line("json", Repeat("=", 80)),
       Line("json", "JSON RESPONSES FOR EACH DEVICE"),
       Line("json", Repeat("=", 80)), Line("json", "") >> \o JsonDump(entries)

(***************************************************************************)
(* The run of the script                                                   *)
(***************************************************************************)
VARIABLES
    pc,              \* where the script is: "start", "catalog_wait",
                     \* "device", "state_wait", "render", "done"
    args,            \* the parsed command line
    yolink_url,      \* os.environ.get('YOLINK_URL'); JNull is None
    yolink_token,    \* os.environ.get('YOLINK_TOKEN')
    devices,         \* the catalog
    next_device,     \* position of the loop over devices
    table_data,      \* the rows assembled so far
    json_responses,  \* the responses kept for --json
    stdout,          \* the lines printed on standard output
    stderr,          \* the lines printed on standard error
    exit_code,       \* exit status of the process, -1 while it runs
    calls,           \* the requests posted to the hub, in order
    in_flight,       \* the number of requests waiting for their response
    catalog_reply,   \* the response received to the catalog request
    state_replies    \* the responses received to the getState requests

vars ==
    << pc, args, yolink_url, yolink_token, devices, next_device, table_data,
       json_responses, stdout, stderr, exit_code, calls, in_flight,
       catalog_reply, state_replies >>

EnvValues(value) == { JNull, JStr(""), JStr(value) }

Args == [hide_device_id : BOOLEAN, sort_by_contact : BOOLEAN, json : BOOLEAN]

api_url == yolink_url.s \o "/open/yolink/v2/api"

Request(method, device_id, device_token) ==
    [url |-> api_url, bearer |-> yolink_token.s, method |-> method,
     targetDevice |-> device_id, token |-> device_token]

ListRequest == Request("Home.getDeviceList", "", "")

StateRequest(device) ==
    Request(DeviceField(device, "type", NA) \o ".getState",
            DeviceField(device, "deviceId", NA),
            DeviceField(device, "token", ""))

\* The text of the exception a failed exchange raises.
ExceptionText(kind) ==
    CASE kind = "transport" -> "ConnectionError"
      [] kind = "http" -> "HTTPError"
      [] OTHER -> "JSONDecodeError"

WarningLine(device_id, kind) ==
    Line("warning", "Warning: Could not fetch properties for " \o device_id
                        \o ": " \o ExceptionText(kind))

Init ==
    /\ pc = "start"
    /\ args \in Args
    /\ yolink_url \in EnvValues("https://hub:8003")
    /\ yolink_token \in EnvValues("secret")
    /\ devices = <<>>
    /\ next_device = 1
    /\ table_data = <<>>
    /\ json_responses = <<>>
    /\ stdout = <<>>
    /\ stderr = <<>>
    /\ exit_code = -1
    /\ calls = <<>>
    /\ in_flight = 0
    /\ catalog_reply = NoCatalogResponse
    /\ state_replies = <<>>

\* sys.exit(status)
Exit(status) == pc' = "done" /\ exit_code' = status

\* A check that only looks for variables that are not set.
MissingConfigNoneOnly(url, token) == url.t = "null" \/ token.t = "null"

\* "not yolink_url or not yolink_token"
MissingConfig(url, token) == ~Truthy(url) \/ ~Truthy(token)

\* The script checks its environment, then posts the catalog request.
Validate ==
    /\ pc = "start"
    /\ IF MissingConfig(yolink_url, yolink_token)
       THEN /\ stderr' =
                   << Line("error",
                           "Error: Missing required environment variables:") >>
                   \o (IF ~Truthy(yolink_url)
                       THEN << Line("error", "  - YOLINK_URL") >> ELSE <<>>)
                   \o (IF ~Truthy(yolink_token)
                       THEN << Line("error", "  - YOLINK_TOKEN") >> ELSE <<>>)
            /\ Exit(1)
            /\ UNCHANGED << stdout, calls, in_flight >>
       ELSE /\ stdout' =
                   << Line("progress", "Fetching device list from "
                                           \o api_url \o "...") >>
            /\ calls' = << ListRequest >>
            /\ in_flight' = 1
            /\ pc' = "catalog_wait"
            /\ UNCHANGED << stderr, exit_code >>
    /\ UNCHANGED << args, yolink_url, yolink_token, devices, next_device,
                    table_data, json_responses, catalog_reply,
                    state_replies >>

\* A keyword match that forgets to lower the description.
DescFailsCaseSensitive(desc) ==
    \E keyword \in {"error", "expired", "invalid"} : Contains(desc, keyword)

\* The description of a catalog response names a failure.
DescFails(desc) ==
    \E keyword \in {"error", "expired", "invalid"} :
        Contains(ToLower(desc), keyword)

\* An empty catalog that still gets the table header.
EmptyCatalogOutputWithHeader ==
    << Line("blank", "") >> \o HeaderLines(FALSE)
        \o << Line("empty", "No devices found") >>

\* What is printed after the progress line when there is no device.
EmptyCatalogOutput == << Line("blank", ""), Line("empty", "No devices found") >>

\* The catalog request ends with resp; message is the error line of the
\* except clause that catches a failure.
CatalogReply(resp, message) ==
    /\ pc = "catalog_wait"
    /\ in_flight' = 0
    /\ catalog_reply' = resp
    /\ LET code == IF resp.code.t = "absent" THEN JStr("0") ELSE resp.code
           desc == IF resp.desc.t = "absent" THEN "" ELSE resp.desc.s
           list == IF resp.has_data /\ resp.has_devices
                   THEN resp.devices ELSE <<>>
       IN  IF resp.kind # "json"
           THEN /\ stderr' = Append(stderr, Line("error", message))
                /\ Exit(1)
                /\ UNCHANGED << stdout, devices >>
           ELSE IF BadCode(code) \/ DescFails(desc)
           THEN /\ stderr' = Append(stderr, Line("error", "Error: " \o desc))
                /\ Exit(1)
                /\ UNCHANGED << stdout, devices >>
           ELSE IF list = <<>>
           THEN /\ stdout' = stdout \o EmptyCatalogOutput
                /\ devices' = list
                /\ Exit(0)
                /\ UNCHANGED stderr
           ELSE /\ stdout' = Append(stdout, Line("blank", ""))
                /\ devices' = list
                /\ pc' = "device"
                /\ UNCHANGED << stderr, exit_code >>
    /\ UNCHANGED << args, yolink_url, yolink_token, next_device, table_data,
                    json_responses, calls, state_replies >>

\* The loop goes on to the next device, or ends.
Advance ==
    /\ next_device' = next_device + 1
    /\ pc' = IF next_device = Len(devices) THEN "render" ELSE "device"

\* The loop takes the next device: with a token it posts the getState
\* request, without one it appends the row of defaults.
BeginDevice ==
    /\ pc = "device"
    /\ LET device == devices[next_device]
       IN  IF DeviceField(device, "token", "") # ""
           THEN /\ calls' = Append(calls, StateRequest(device))
                /\ in_flight' = 1
                /\ pc' = "state_wait"
                /\ UNCHANGED << next_device, table_data >>
           ELSE /\ table_data' = Append(table_data, Row(device, NotFetched))
                /\ Advance
                /\ UNCHANGED << calls, in_flight >>
    /\ UNCHANGED << args, yolink_url, yolink_token, devices, json_responses,
                    stdout, stderr, exit_code, catalog_reply, state_replies >>

\* The getState request of the current device ends with resp: the row is
\* assembled and appended, or the loop body raises and the script dies
\* with a traceback.
StateReply(resp) ==
    /\ pc = "state_wait"
    /\ in_flight' = 0
    /\ state_replies' = Append(state_replies, resp)
    /\ LET device == devices[next_device]
           device_id == DeviceField(device, "deviceId", NA)
           f == get_device_properties(resp)
           warning == IF f.warned
                      THEN << WarningLine(device_id, resp.kind) >> ELSE <<>>
       IN  /\ json_responses' =
                  IF ResponseTruthy(f)
                  THEN Append(json_responses,
                              [deviceId |-> device_id,
                               name |-> DeviceField(device, "name", NA),
                               response |-> f.response])
                  ELSE json_responses
           /\ IF RowRaises(f)
              THEN /\ stderr' = stderr \o warning
                                  \o << Line("traceback", "ValueError") >>
                   /\ Exit(1)
                   /\ UNCHANGED << next_device, table_data >>
              ELSE /\ stderr' = stderr \o warning
                   /\ table_data' = Append(table_data, Row(device, f))
                   /\ Advance
                   /\ UNCHANGED exit_code
    /\ UNCHANGED << args, yolink_url, yolink_token, devices, stdout, calls,
                    catalog_reply >>

\* The table is printed: header, the sorted rows, the JSON section.
Render ==
    /\ pc = "render"
    /\ table_data' = SortRows(table_data, args.sort_by_contact)
    /\ stdout' = stdout \o HeaderLines(args.hide_device_id)
                    \o [ r \in 1..Len(table_data) |->
                           RowLine(table_data'[r], args.hide_device_id) ]
                    \o (IF args.json /\ json_responses # <<>>
                        THEN JsonSection(json_responses) ELSE <<>>)
    /\ Exit(0)
    /\ UNCHANGED << args, yolink_url, yolink_token, devices, next_device,
                    json_responses, stderr, calls, in_flight, catalog_reply,
                    state_replies >>

\* The error line of the except clause that catches a failed catalog
\* exchange: the JSONDecodeError of a body that is no JSON is a
\* RequestException in some versions of requests and not in others.
CatalogErrorLines(kind) ==
    IF kind = "badjson"
    THEN { "Error: Failed to fetch devices", "Error: Invalid JSON response" }
    ELSE { "Error: Failed to fetch devices" }

Next ==
    \/ Validate
    \/ \E resp \in CatalogResponses :
           \E message \in CatalogErrorLines(resp.kind) :
               CatalogReply(resp, message)
    \/ BeginDevice
    \/ \E resp \in StateResponses : StateReply(resp)
    \/ Render

Spec == Init /\ [][Next]_vars

(***************************************************************************)
(* Vocabulary of the properties                                            *)
(***************************************************************************)
Unset(value) == value \in { JNull, JStr("") }

Names(lines, word) == \E n \in 1..Len(lines) : Contains(lines[n].text, word)

Texts(lines) == [ n \in 1..Len(lines) |-> lines[n].text ]

OfKind(lines, kinds) == SelectSeq(lines, LAMBDA l : l.kind \in kinds)

TableKinds == {"header", "rule", "row"}

OnlyCatalogCall == \A n \in 1..Len(calls) : calls[n].method = "Home.getDeviceList"

\* The catalog exchange ended in one of the fatal ways.
IsCatalogError(r) ==
    \/ r.kind \in {"transport", "http", "badjson"}
    \/ /\ r.kind = "json"
       /\ \/ r.code.t # "absent" /\ ~(r.code.t = "str" /\ r.code.s \in {"0", "000000"})
          \/ /\ r.desc.t = "str"
             /\ \E word \in {"error", "expired", "invalid"} :
                    Contains(ToLower(r.desc.s), word)

CatalogSucceeded == catalog_reply.kind = "json" /\ ~IsCatalogError(catalog_reply)

EmptyList(r) == ~r.has_data \/ ~r.has_devices \/ r.devices = <<>>

HasToken(j) == DeviceField(devices[j], "token", "") # ""

\* The positions of the devices with a token, in catalog order: the k-th
\* getState response belongs to device TokenIdx[k].
TokenIdx == SelectSeq([ j \in 1..Len(devices) |-> j ], HasToken)

StateSucceeded(r) ==
    r.kind = "json" /\ (r.code.t = "absent" \/ r.code.s \in {"0", "000000"})

StateFailed(r) ==
    \/ r.kind \in {"transport", "http", "badjson"}
    \/ r.kind = "json" /\ r.code.t # "absent" /\ r.code.s \notin {"0", "000000"}

MalformedTemperature(r) ==
    /\ TemperatureKey(r.state) # ""
    /\ LET value == Get(r.state, TemperatureKey(r.state))
       IN  value.t \notin {"int", "float"}
               /\ ~(value.t = "str" /\ IsDecimal(value.s))

UnparseableStamp(r) ==
    /\ Truthy(r.report_at)
    /\ r.report_at.t # "str" \/ ~IsIsoFormat(ReplaceZ(r.report_at.s))

\* C8: when YOLINK_URL or YOLINK_TOKEN is missing or empty, the run ends with
\* exit code 1, the diagnostic names each missing variable and only those,
\* and no request is ever posted.
C8_ConfigErrorBeforeIO ==
    (pc # "start" /\ (Unset(yolink_url) \/ Unset(yolink_token))) =>
        /\ pc = "done" /\ exit_code = 1
        /\ calls = <<>> /\ in_flight = 0
        /\ stderr # <<>>
        /\ Names(stderr, "YOLINK_URL") <=> Unset(yolink_url)
        /\ Names(stderr, "YOLINK_TOKEN") <=> Unset(yolink_token)

C8_Witness ==
    /\ pc = "done" /\ exit_code = 1
    /\ ~Unset(yolink_url) /\ yolink_token = JStr("")
    /\ Names(stderr, "YOLINK_TOKEN")

\* C2: when the catalog call ends in a transport failure, an invalid body, a
\* code outside {"0", "000000"} or a description holding "error", "expired"
\* or "invalid" in any case, the run ends with exit code 1, no getState
\* request is ever posted and no header or row of the table is printed.
C2_CatalogErrorsFatal ==
    IsCatalogError(catalog_reply) =>
        /\ pc = "done" /\ exit_code = 1
        /\ OnlyCatalogCall /\ Len(calls) = 1 /\ in_flight = 0
        /\ OfKind(stdout, TableKinds) = <<>>
        /\ table_data = <<>>

C2_Witness ==
    /\ pc = "done" /\ exit_code = 1
    /\ catalog_reply.kind = "json"
    /\ catalog_reply.code = JStr("000000")
    /\ catalog_reply.desc = JStr("Token EXPIRED")

\* C7 as stated: with a catalog that succeeds and has no device list or an
\* empty one, the output is exactly "No devices found", nothing of the
\* table, no getState request, no error and exit code 0.
C7_OutputExactlyNoDevices ==
    (CatalogSucceeded /\ EmptyList(catalog_reply)) =>
        /\ Texts(stdout) = << "No devices found" >>
        /\ OfKind(stdout, TableKinds) = <<>>
        /\ OnlyCatalogCall /\ stderr = <<>>
        /\ pc = "done" /\ exit_code = 0

\* C7 as amended: with a catalog that succeeds and has no device list or an
\* empty one, the output is the progress line, an empty line and
\* "No devices found", nothing of the table, no getState request, no error
\* and exit code 0, whatever the flags.
C7_EmptyCatalog ==
    (CatalogSucceeded /\ EmptyList(catalog_reply)) =>
        /\ Texts(stdout) =
               << "Fetching device list from " \o yolink_url.s
                      \o "/open/yolink/v2/api...",
                  "", "No devices found" >>
        /\ OfKind(stdout, TableKinds) = <<>>
        /\ OnlyCatalogCall /\ stderr = <<>>
        /\ pc = "done" /\ exit_code = 0

C7_Witness ==
    /\ pc = "done" /\ exit_code = 0
    /\ CatalogSucceeded /\ ~catalog_reply.has_devices
    /\ args.json /\ args.hide_device_id /\ args.sort_by_contact
    /\ Names(stdout, "No devices found")

\* C1: once the catalog call has succeeded with devices, whatever the
\* outcomes of the getState calls, the run processes every device, prints
\* one row for each and ends with exit code 0.
C1_FailureIsolation ==
    (pc = "done" /\ CatalogSucceeded /\ devices # <<>>) =>
        /\ exit_code = 0
        /\ Len(state_replies) = Len(TokenIdx)
        /\ Len(OfKind(stdout, {"row"})) = Len(devices)

\* C3: for a device whose getState call succeeded, a timestamp that does not
\* parse or a temperature that is no number puts "N/A" in that one field;
\* the row is still appended and the run does not abort.
C3_FormatErrorsLocal ==
    \A k \in 1..Len(state_replies) :
        LET r == state_replies[k]
            j == TokenIdx[k]
        IN  (StateSucceeded(r) /\ (UnparseableStamp(r) \/ MalformedTemperature(r)))
            => /\ exit_code # 1
               /\ pc # "done" =>
                     /\ Len(table_data) >= j
                     /\ MalformedTemperature(r) =>
                            table_data[j][6] = Center("N/A", 7)
                     /\ UnparseableStamp(r) =>
                            table_data[j][7] = Center("N/A", 19)

\* The state of device j was not obtained: it has no token, or its getState
\* call failed.
NotObtained(j) ==
    \/ ~HasToken(j)
    \/ LET k == Cardinality({ m \in 1..j : HasToken(m) })
       IN  k <= Len(state_replies) /\ StateFailed(state_replies[k])

\* C4: the row of a device whose state was not obtained holds the default in
\* every field derived from the state: battery, temperature, last contact,
\* no-motion delay, sensitivity, state and version.
C4_DefaultsOnMissingState ==
    pc # "done" =>
        \A j \in 1..Len(table_data) :
            NotObtained(j) =>
                /\ table_data[j][5] = "N/A"
                /\ table_data[j][6] = Center("N/A", 7)
                /\ table_data[j][7] = Center("N/A", 19)
                /\ \A c \in 8..11 : table_data[j][c] = "N/A"

\* The number of positions of seq that satisfy Test.
Count(seq, Test(_)) == Cardinality({ n \in 1..Len(seq) : Test(seq[n]) })

\* C5: every getState call that ends in a transport failure or in a bad
\* envelope gets exactly one warning naming its device on standard error,
\* and no other call gets one.
C5_FailuresWarned ==
    \A j \in 1..Len(devices) :
        LET id == DeviceField(devices[j], "deviceId", "N/A")
            NamesId(l) == l.kind = "warning" /\ Contains(l.text, " " \o id \o ":")
            failed == { k \in 1..Len(state_replies) :
                          /\ calls[k + 1].targetDevice = id
                          /\ StateFailed(state_replies[k]) }
        IN  Count(stderr, NamesId) = Cardinality(failed)

\* The getState request the trace must hold for a device.
ExpectedStateCall(device) ==
    [method |-> DeviceField(device, "type", "N/A") \o ".getState",
     targetDevice |-> DeviceField(device, "deviceId", "N/A"),
     token |-> DeviceField(device, "token", "")]

CallShape(call) ==
    [method |-> call.method, targetDevice |-> call.targetDevice,
     token |-> call.token]

\* C6: the requests of a run are the catalog call followed by one getState
\* call for each device with a token, in catalog order and with the id and
\* token of that device, none for a device without token, none repeated;
\* at most one request is in flight, and all of them are over before the
\* first row is printed.
C6_RequestTrace ==
    /\ in_flight <= 1
    /\ OfKind(stdout, {"row"}) # <<>> =>
           in_flight = 0 /\ Len(state_replies) = Len(TokenIdx)
    /\ (pc = "done" /\ CatalogSucceeded) =>
           /\ calls[1].method = "Home.getDeviceList"
           /\ Len(calls) = 1 + Len(TokenIdx)
           /\ \A k \in 1..Len(TokenIdx) :
                  CallShape(calls[k + 1]) = ExpectedStateCall(devices[TokenIdx[k]])

\* C10: every row of the table has the fields of the header, in number and
\* order, and each of them is a non-empty string.
C10_RowInvariant ==
    \A j \in 1..Len(table_data) :
        /\ Len(table_data[j]) = Len(HeaderCells)
        /\ \A c \in 1..Len(table_data[j]) : table_data[j][c] # ""

Orderings(n) ==
    { p \in [1..n -> 1..n] : \A a, b \in 1..n : a # b => p[a] # p[b] }

\* The key the rows are to be ordered by.
OrderKey(row) ==
    IF args.sort_by_contact THEN << Strip(row[7]), row[1], row[2] >>
    ELSE << row[1], row[2] >>

\* The fields of a printed "YYYY-MM-DD HH:MM:SS" as numbers.
Instant(stamp) ==
    << DigitsVal(SubSeq(stamp, 1, 4)), DigitsVal(SubSeq(stamp, 6, 7)),
       DigitsVal(SubSeq(stamp, 9, 10)), DigitsVal(SubSeq(stamp, 12, 13)),
       DigitsVal(SubSeq(stamp, 15, 16)), DigitsVal(SubSeq(stamp, 18, 19)) >>

RECURSIVE Later(_, _)
\* Instant a is after instant b.
Later(a, b) ==
    IF a = <<>> THEN FALSE
    ELSE IF Head(a) = Head(b) THEN Later(Tail(a), Tail(b))
    ELSE Head(a) > Head(b)

HasStamp(row) == Strip(row[7]) # "N/A"

====
